---- MODULE Spec2Model ----
(***************************************************************************)
(* A model of the calculator of src/script.js: the state object, the       *)
(* handlers appendNumber, appendOperator, backspace, clearDisplay,         *)
(* clearAll and calculate, and the pure functions evaluateExpression and   *)
(* formatResult.                                                           *)
(*                                                                         *)
(* Strings are sequences of one-character strings, so that slicing,        *)
(* joining, trimming, parsing and formatting are computed character by     *)
(* character.  Numbers are exact rationals [num, den] in lowest terms      *)
(* (den = 0 is NaN).  A JavaScript number is an IEEE double: where an      *)
(* operation's operands are not exactly representable, the double result   *)
(* may differ from the exact one in its last bits, and then its decimal    *)
(* text has 16 or 17 digits; FormatOutcomes lets calculate take either     *)
(* text in those cases.                                                    *)
(***************************************************************************)
EXTENDS Integers, Sequences, FiniteSets, TLC

VARIABLES currentInput, expression, history, isResultDisplayed,
          lastAction, outcome, computed, steps

vars == <<currentInput, expression, history, isResultDisplayed,
          lastAction, outcome, computed, steps>>

-----------------------------------------------------------------------------
(* Text *)

DigitChars == {"0", "1", "2", "3", "4", "5", "6", "7", "8", "9"}

DigitValue(c) ==
    CASE c = "0" -> 0 [] c = "1" -> 1 [] c = "2" -> 2 [] c = "3" -> 3
      [] c = "4" -> 4 [] c = "5" -> 5 [] c = "6" -> 6 [] c = "7" -> 7
      [] c = "8" -> 8 [] c = "9" -> 9

DigitChar(d) ==
    CASE d = 0 -> "0" [] d = 1 -> "1" [] d = 2 -> "2" [] d = 3 -> "3"
      [] d = 4 -> "4" [] d = 5 -> "5" [] d = 6 -> "6" [] d = 7 -> "7"
      [] d = 8 -> "8" [] d = 9 -> "9"

\* String.prototype.includes for a single character
Includes(text, c) == \E i \in 1..Len(text) : text[i] = c

\* String.prototype.slice(0, -1)
SliceLast(text) == IF Len(text) = 0 THEN text ELSE SubSeq(text, 1, Len(text) - 1)

RECURSIVE TrimStart(_)
TrimStart(text) ==
    IF Len(text) > 0 /\ Head(text) = " " THEN TrimStart(Tail(text)) ELSE text

RECURSIVE TrimEnd(_)
TrimEnd(text) ==
    IF Len(text) > 0 /\ text[Len(text)] = " " THEN TrimEnd(SliceLast(text)) ELSE text

\* String.prototype.trim
Trim(text) == TrimEnd(TrimStart(text))

\* Array.prototype.join('')
RECURSIVE Join(_)
Join(tokens) == IF tokens = <<>> THEN <<>> ELSE Head(tokens) \o Join(Tail(tokens))

\* String.prototype.replace('.', ''): the first point only
RECURSIVE RemoveFirstPoint(_)
RemoveFirstPoint(text) ==
    IF text = <<>> THEN <<>>
    ELSE IF Head(text) = "." THEN Tail(text)
    ELSE <<Head(text)>> \o RemoveFirstPoint(Tail(text))

\* the messages of the errors evaluateExpression throws
InvalidNumber ==
    <<"I", "n", "v", "a", "l", "i", "d", " ", "n", "u", "m", "b", "e", "r">>

InvalidExpression ==
    <<"I", "n", "v", "a", "l", "i", "d", " ", "e", "x", "p", "r", "e", "s", "s", "i", "o", "n">>

DivideByZero ==
    <<"C", "a", "n", "n", "o", "t", " ", "d", "i", "v", "i", "d", "e", " ",
      "b", "y", " ", "z", "e", "r", "o">>

ErrorMessages == {InvalidNumber, InvalidExpression, DivideByZero}

-----------------------------------------------------------------------------
(* Numbers *)

Abs(n) == IF n < 0 THEN 0 - n ELSE n

RECURSIVE GCD(_, _)
GCD(a, b) == IF b = 0 THEN a ELSE GCD(b, a % b)

NaN == [num |-> 0, den |-> 0]

IsNaN(x) == x.den = 0

\* the rational n / d in lowest terms, d # 0
Rat(n, d) ==
    LET g == GCD(Abs(n), Abs(d))
        s == IF d < 0 THEN 0 - 1 ELSE 1
    IN [num |-> (s * n) \div g, den |-> (s * d) \div g]

Whole(n) == [num |-> n, den |-> 1]

IsZero(x) == x.den # 0 /\ x.num = 0

RECURSIVE IsPowerOfTwo(_)
IsPowerOfTwo(n) == n = 1 \/ (n > 1 /\ n % 2 = 0 /\ IsPowerOfTwo(n \div 2))

\* a double holds the value exactly (the magnitudes of the model are far below 2^53)
IsDyadic(x) == x.den # 0 /\ IsPowerOfTwo(x.den)

RECURSIVE Pow10(_)
Pow10(k) == IF k = 0 THEN 1 ELSE 10 * Pow10(k - 1)

\* the decimal digits of a natural number; <<>> for 0
RECURSIVE IntDigits(_)
IntDigits(n) == IF n = 0 THEN <<>> ELSE IntDigits(n \div 10) \o <<DigitChar(n % 10)>>

\* the value of a run of digit characters
RECURSIVE DigitsValue(_)
DigitsValue(text) ==
    IF text = <<>> THEN 0
    ELSE 10 * DigitsValue(SliceLast(text)) + DigitValue(text[Len(text)])

\* the length of the longest run of digits of text that starts at index i
RECURSIVE DigitRun(_, _)
DigitRun(text, i) ==
    IF i <= Len(text) /\ text[i] \in DigitChars THEN 1 + DigitRun(text, i + 1) ELSE 0

\* the value of the run of digits of text that starts at index i (0 if none)
RunValue(text, i) == DigitsValue(SubSeq(text, i, i + DigitRun(text, i) - 1))

\* the exponent part of a literal, read at index i: e or E, a sign or none,
\* digits; 0 when the text has no exponent part there
ExponentValue(text, i) ==
    IF i <= Len(text) /\ text[i] \in {"e", "E"}
    THEN IF i + 1 <= Len(text) /\ text[i + 1] = "-" THEN 0 - RunValue(text, i + 2)
         ELSE IF i + 1 <= Len(text) /\ text[i + 1] = "+" THEN RunValue(text, i + 2)
         ELSE RunValue(text, i + 1)
    ELSE 0

\* mantissa * 10^scale
Scaled(mantissa, scale) ==
    IF scale >= 0 THEN Rat(mantissa * Pow10(scale), 1)
    ELSE Rat(mantissa, Pow10(0 - scale))

\* nInt digits, then (at nInt + 1) a point and nFrac digits or nothing, then
\* at iExp an exponent part or nothing
ParseDecimal(text, nInt, nFrac, iExp) ==
    IF nInt = 0 /\ nFrac = 0 THEN NaN
    ELSE Scaled(DigitsValue(SubSeq(text, 1, nInt)) * Pow10(nFrac)
                + DigitsValue(SubSeq(text, nInt + 2, nInt + 1 + nFrac)),
                ExponentValue(text, iExp) - nFrac)

ParseUnsigned(text, nInt, hasPoint) ==
    ParseDecimal(text, nInt,
                 IF hasPoint THEN DigitRun(text, nInt + 2) ELSE 0,
                 IF hasPoint THEN nInt + 2 + DigitRun(text, nInt + 2) ELSE nInt + 1)

ParseDigits(text, nInt) ==
    ParseUnsigned(text, nInt, nInt + 1 <= Len(text) /\ text[nInt + 1] = ".")

Negated(negative, x) == IF negative THEN [num |-> 0 - x.num, den |-> x.den] ELSE x

ParseSigned(text, signed) ==
    Negated(signed /\ text[1] = "-",
            ParseDigits(IF signed THEN Tail(text) ELSE text,
                        DigitRun(text, IF signed THEN 2 ELSE 1)))

\* parseFloat: the longest prefix of the text, after leading blanks, that is
\* a decimal literal ([+-] digits [. digits] [e [+-] digits], or
\* [+-] . digits ...), else NaN.  (The literal Infinity is not modelled: no
\* text of the program spells it.)
ParseTrimmed(text) == ParseSigned(text, Len(text) > 0 /\ text[1] \in {"+", "-"})

parseFloat(string) == ParseTrimmed(TrimStart(string))

\* !x for a number x: NaN and zero are falsy
Falsy(x) == IsNaN(x) \/ IsZero(x)

-----------------------------------------------------------------------------
(* Rational arithmetic: the exact values of the double operations *)

Plus(a, b) == Rat(a.num * b.den + b.num * a.den, a.den * b.den)

Minus(a, b) == Rat(a.num * b.den - b.num * a.den, a.den * b.den)

Times(a, b) == Rat(a.num * b.num, a.den * b.den)

Over(a, b) == Rat(a.num * b.den, a.den * b.num)

-----------------------------------------------------------------------------
(* Decimal expansion *)

\* the first k digits of the fraction r / b (0 <= r < b) and the remainder left
RECURSIVE FracDigits(_, _, _)
FracDigits(r, b, k) ==
    IF k = 0 THEN [digits |-> <<>>, rem |-> r]
    ELSE LET rest == FracDigits((r * 10) % b, b, k - 1)
         IN [digits |-> <<DigitChar((r * 10) \div b)>> \o rest.digits, rem |-> rest.rem]

\* how many zeros follow the point of r / b before its first non-zero digit (0 < r < b)
RECURSIVE LeadingZeros(_, _)
LeadingZeros(r, b) == IF r * 10 >= b THEN 0 ELSE 1 + LeadingZeros(r * 10, b)

RECURSIVE StripTrailingZeros(_)
StripTrailingZeros(text) ==
    IF Len(text) > 0 /\ text[Len(text)] = "0" THEN StripTrailingZeros(SliceLast(text))
    ELSE text

SignText(x) == IF x.num < 0 THEN <<"-">> ELSE <<>>

ExponentText(e) ==
    <<"e", IF e < 0 THEN "-" ELSE "+">> \o (IF e = 0 THEN <<"0">> ELSE IntDigits(Abs(e)))

\* the digits of a / b from its first non-zero digit on, k of them, and the
\* decimal exponent of the first one (a, b > 0)
SignificantOf(whole, r, b, k) ==
    IF whole # <<>>
    THEN [digits |-> SubSeq(whole \o FracDigits(r, b, k).digits, 1, k),
          exponent |-> Len(whole) - 1]
    ELSE [digits |-> FracDigits(r * Pow10(LeadingZeros(r, b)), b, k).digits,
          exponent |-> 0 - (LeadingZeros(r, b) + 1)]

Significant(a, b, k) == SignificantOf(IntDigits(a \div b), a % b, b, k)

\* the mantissa m (five digits) and the exponent e as text
ExponentialText(sign, m, e) ==
    sign \o <<m[1], ".">> \o SubSeq(m, 2, 5) \o ExponentText(e)

\* five significant digits as a number, rounded, with its exponent: 99999.5
\* and above carries into the exponent
Carried(sign, m, e) ==
    IF m = 100000 THEN ExponentialText(sign, IntDigits(10000), e + 1)
    ELSE ExponentialText(sign, IntDigits(m), e)

\* the sixth significant digit rounds half up
Rounded(sign, s) ==
    Carried(sign,
            DigitsValue(SubSeq(s.digits, 1, 5))
            + (IF DigitValue(s.digits[6]) >= 5 THEN 1 ELSE 0),
            s.exponent)

\* Number.prototype.toExponential(4): one digit, a point, four digits, the exponent
toExponential4(x) ==
    IF IsZero(x) THEN <<"0", ".", "0", "0", "0", "0", "e", "+", "0">>
    ELSE Rounded(SignText(x), Significant(Abs(x.num), x.den, 6))

\* |x| > 1e7
AboveTenMillion(x) ==
    \/ Abs(x.num) \div x.den > 10000000
    \/ (Abs(x.num) \div x.den = 10000000 /\ Abs(x.num) % x.den # 0)

\* |x| < 1e-7 and x # 0
BelowTenMillionth(x) ==
    x.num # 0 /\ Abs(x.num) < x.den /\ LeadingZeros(Abs(x.num), x.den) >= 7

\* digits, and a point before the rest when there are more
PointAfterFirst(sig) ==
    <<sig[1]>> \o (IF Len(sig) > 1 THEN <<".">> \o Tail(sig) ELSE <<>>)

\* the exponent form of Number.prototype.toString: 1.5e-7
ExponentForm(sign, s) ==
    sign \o PointAfterFirst(StripTrailingZeros(s.digits)) \o ExponentText(s.exponent)

\* the decimal form of Number.prototype.toString: 0.25, 12, 12.5
DecimalForm(sign, whole, frac) ==
    sign \o (IF whole = <<>> THEN <<"0">> ELSE whole)
         \o (IF frac = <<>> THEN <<>> ELSE <<".">> \o frac)

\* f: the first 17 digits after the point of a / b and the remainder they leave
ToStringFrom(sign, a, b, f) ==
    IF a = 0 THEN [long |-> FALSE, text |-> <<"0">>]
    ELSE IF f.rem # 0 THEN [long |-> TRUE, text |-> <<>>]
    ELSE IF a < b /\ LeadingZeros(a, b) >= 6
    THEN [long |-> FALSE, text |-> ExponentForm(sign, Significant(a, b, 11))]
    ELSE [long |-> FALSE,
          text |-> DecimalForm(sign, IntDigits(a \div b), StripTrailingZeros(f.digits))]

\* Number.prototype.toString of the double nearest to x, when that text has
\* at most 11 significant digits; long is TRUE when it has more (then the
\* text has more than 10 characters besides the point, whatever they are).
\* Below 1e-6 the text is in exponent form.
toStringOf(x) ==
    ToStringFrom(SignText(x), Abs(x.num), x.den, FracDigits(Abs(x.num) % x.den, x.den, 17))

\* line 14
NeedsExponential(number, numStr) ==
    \/ numStr.long
    \/ Len(RemoveFirstPoint(numStr.text)) > 10
    \/ AboveTenMillion(number)
    \/ BelowTenMillionth(number)

\* formatResult(number), lines 10-18
formatResult(number) ==
    IF NeedsExponential(number, toStringOf(number)) THEN toExponential4(number)
    ELSE toStringOf(number).text

-----------------------------------------------------------------------------
(* Expression evaluator, lines 131-189 *)

Operators == {<<"+">>, <<"-">>, <<"*">>, <<"/">>}

IsOperator(token) == token \in Operators

Returned(x) == [ok |-> TRUE, value |-> x, message |-> <<>>]

Thrown(message) == [ok |-> FALSE, value |-> NaN, message |-> message]

\* the operator tokens, in order (lines 137-141)
RECURSIVE OperatorsOf(_)
OperatorsOf(tokens) ==
    IF tokens = <<>> THEN <<>>
    ELSE IF IsOperator(Head(tokens)) THEN <<Head(tokens)>> \o OperatorsOf(Tail(tokens))
    ELSE OperatorsOf(Tail(tokens))

\* the other tokens parsed, in order (lines 141-145)
RECURSIVE NumbersOf(_)
NumbersOf(tokens) ==
    IF tokens = <<>> THEN <<>>
    ELSE IF IsOperator(Head(tokens)) THEN NumbersOf(Tail(tokens))
    ELSE <<parseFloat(Head(tokens))>> \o NumbersOf(Tail(tokens))

\* line 157 with one precedence for all four operators
precedenceFlat(op) == 1

precedence(op) == IF op \in {<<"*">>, <<"/">>} THEN 2 ELSE 1

\* line 164 testing the dividend instead of the divisor (the quotient by
\* zero, an infinity in the code, stands as a)
applyOperatorTestsDividend(op, a, b) ==
    CASE op = <<"+">> -> Returned(Plus(a, b))
      [] op = <<"-">> -> Returned(Minus(a, b))
      [] op = <<"*">> -> Returned(Times(a, b))
      [] op = <<"/">> -> IF IsZero(a) THEN Thrown(DivideByZero)
                         ELSE IF IsZero(b) THEN Returned(a) ELSE Returned(Over(a, b))

\* applyOperator, lines 158-168
applyOperator(op, a, b) ==
    CASE op = <<"+">> -> Returned(Plus(a, b))
      [] op = <<"-">> -> Returned(Minus(a, b))
      [] op = <<"*">> -> Returned(Times(a, b))
      [] op = <<"/">> -> IF IsZero(b) THEN Thrown(DivideByZero) ELSE Returned(Over(a, b))

RemoveAt(seq, i) == SubSeq(seq, 1, i - 1) \o SubSeq(seq, i + 1, Len(seq))

PassDone(numbers, operators) ==
    [ok |-> TRUE, numbers |-> numbers, operators |-> operators, message |-> <<>>]

PassThrew(message) ==
    [ok |-> FALSE, numbers |-> <<>>, operators |-> <<>>, message |-> message]

\* the loop of lines 171-180, from index i (1-based) on; Collapse is lines
\* 174-176 with r what applyOperator returned or threw
RECURSIVE HighPrecedencePass(_, _, _)
RECURSIVE Collapse(_, _, _, _)
Collapse(numbers, operators, i, r) ==
    IF ~r.ok THEN PassThrew(r.message)
    ELSE HighPrecedencePass(RemoveAt([numbers EXCEPT ![i] = r.value], i + 1),
                            RemoveAt(operators, i), i)

HighPrecedencePass(numbers, operators, i) ==
    IF i > Len(operators) THEN PassDone(numbers, operators)
    ELSE IF precedence(operators[i]) = 2
    THEN Collapse(numbers, operators, i,
                  applyOperator(operators[i], numbers[i], numbers[i + 1]))
    ELSE HighPrecedencePass(numbers, operators, i + 1)

\* the loop of lines 183-186, from index i (1-based) on, r the result so far
RECURSIVE LowPrecedencePass(_, _, _, _)
LowPrecedencePass(r, numbers, operators, i) ==
    IF i > Len(operators) \/ ~r.ok THEN r
    ELSE LowPrecedencePass(applyOperator(operators[i], r.value, numbers[i + 1]),
                           numbers, operators, i + 1)

\* lines 182-188
FoldRemaining(high) ==
    IF ~high.ok THEN Thrown(high.message)
    ELSE LowPrecedencePass(Returned(high.numbers[1]), high.numbers, high.operators, 1)

\* line 154
Malformed(numbers, operators) == Len(numbers) <= Len(operators)

\* lines 148-188
Evaluate(numbers, operators) ==
    IF \E i \in 1..Len(numbers) : IsNaN(numbers[i]) THEN Thrown(InvalidNumber)
    ELSE IF Len(numbers) = 1 /\ Len(operators) = 0 THEN Returned(numbers[1])
    ELSE IF Malformed(numbers, operators) THEN Thrown(InvalidExpression)
    ELSE FoldRemaining(HighPrecedencePass(numbers, operators, 1))

evaluateExpression(expr) == Evaluate(NumbersOf(expr), OperatorsOf(expr))

-----------------------------------------------------------------------------
(* The state object, lines 2-7 *)

\* a history entry, line 114
Record(expressionStr, formattedResult) ==
    [expression |-> expressionStr, result |-> formattedResult]

\* what the last call of calculate did: nothing yet ("none"), returned at
\* line 104 or 108 ("returned"), or called evaluateExpression ("evaluated",
\* with what it returned or threw)
NoOutcome == [kind |-> "none", ok |-> FALSE, value |-> NaN, message |-> <<>>]

ReturnedEarly == [kind |-> "returned", ok |-> FALSE, value |-> NaN, message |-> <<>>]

Evaluated(r) == [kind |-> "evaluated", ok |-> r.ok, value |-> r.value, message |-> r.message]

Init ==
    /\ currentInput = <<>>
    /\ expression = <<>>
    /\ history = <<>>
    /\ isResultDisplayed = FALSE
    /\ lastAction = "none"
    /\ outcome = NoOutcome
    /\ computed = <<>>
    /\ steps = 0

-----------------------------------------------------------------------------
(* Expression builder *)

\* the operator key that line 41 lets through on an empty input
MinusKey == <<" ", "-", " ">>

\* appendNumber without the reset of lines 22-26: the displayed text is kept
\* and typed onto
appendNumberKeepsResult(digit) ==
    /\ currentInput' = IF digit = "." /\ Includes(currentInput, ".") THEN currentInput
                       ELSE currentInput \o <<digit>>
    /\ expression' = expression
    /\ isResultDisplayed' = FALSE
    /\ lastAction' = "appendNumber"
    /\ outcome' = NoOutcome
    /\ UNCHANGED <<history, computed>>

\* appendNumber without line 28: a second point is appended
appendNumberAnyPoint(digit) ==
    /\ currentInput' = (IF isResultDisplayed THEN <<>> ELSE currentInput) \o <<digit>>
    /\ expression' = IF isResultDisplayed THEN <<>> ELSE expression
    /\ isResultDisplayed' = FALSE
    /\ lastAction' = "appendNumber"
    /\ outcome' = NoOutcome
    /\ UNCHANGED <<history, computed>>

\* appendNumber(digit), lines 21-31
appendNumber(digit) ==
    LET input == IF isResultDisplayed THEN <<>> ELSE currentInput
    IN /\ currentInput' = IF digit = "." /\ Includes(input, ".") THEN input
                          ELSE input \o <<digit>>
       /\ expression' = IF isResultDisplayed THEN <<>> ELSE expression
       /\ isResultDisplayed' = FALSE
       /\ lastAction' = "appendNumber"
       /\ outcome' = NoOutcome
       /\ UNCHANGED <<history, computed>>

\* line 41 letting the plus key through instead of the minus key
RejectedUnlessPlus(input, op) == input = <<>> /\ op # <<" ", "+", " ">>

\* line 41: the operator is dropped
Rejected(input, op) == input = <<>> /\ op # MinusKey

\* lines 35-38: the expression and the input after the result is taken over
SeededExpression == IF isResultDisplayed THEN <<currentInput>> ELSE expression

SeededInput == IF isResultDisplayed THEN <<>> ELSE currentInput

\* lines 42-46
PushOperator(expr, input, op) ==
    Append(IF input # <<>> THEN Append(expr, input) ELSE expr, Trim(op))

\* appendOperator(op), lines 34-48
appendOperator(op) ==
    /\ IF Rejected(SeededInput, op)
       THEN /\ expression' = SeededExpression
            /\ currentInput' = SeededInput
       ELSE /\ expression' = PushOperator(SeededExpression, SeededInput, op)
            /\ currentInput' = <<>>
    /\ isResultDisplayed' = FALSE
    /\ lastAction' = "appendOperator"
    /\ outcome' = NoOutcome
    /\ UNCHANGED <<history, computed>>

\* lines 60-62: the expression with its last two elements popped, and the
\* second of them (or '' when there is none) as the input
PopTwo(expr) ==
    LET once == SliceLast(expr)
    IN [expression |-> SliceLast(once),
        input |-> IF once = <<>> THEN <<>> ELSE once[Len(once)]]

\* backspace(), lines 51-65
backspace ==
    LET input == IF isResultDisplayed THEN <<>> ELSE currentInput
        expr == IF isResultDisplayed THEN <<>> ELSE expression
    IN /\ IF input # <<>>
          THEN /\ currentInput' = SliceLast(input)
               /\ expression' = expr
          ELSE IF Len(expr) > 0
          THEN /\ currentInput' = PopTwo(expr).input
               /\ expression' = PopTwo(expr).expression
          ELSE /\ currentInput' = input
               /\ expression' = expr
       /\ isResultDisplayed' = FALSE
       /\ lastAction' = "backspace"
       /\ outcome' = NoOutcome
       /\ UNCHANGED <<history, computed>>

\* line 80 in clearAll; clearDisplay has no such line
ClearedHistory(h) == <<>>

\* clearDisplay with line 80 of clearAll copied into it
DroppedHistory(h) == <<>>

KeptHistory(h) == h

\* clearDisplay(), lines 68-74
clearDisplay ==
    /\ currentInput' = <<>>
    /\ expression' = <<>>
    /\ isResultDisplayed' = FALSE
    /\ history' = KeptHistory(history)
    /\ lastAction' = "clearDisplay"
    /\ outcome' = NoOutcome
    /\ UNCHANGED computed

\* clearAll(), lines 77-84
clearAll ==
    /\ currentInput' = <<>>
    /\ expression' = <<>>
    /\ history' = ClearedHistory(history)
    /\ isResultDisplayed' = FALSE
    /\ lastAction' = "clearAll"
    /\ outcome' = NoOutcome
    /\ computed' = <<>>

-----------------------------------------------------------------------------
(* calculate(), lines 103-128 *)

HistoryLimit == 10

\* lines 114-115 without the shift
PushHistoryUnlimited(h, record) == Append(h, record)

\* lines 114-115 with pop in place of shift
PushHistoryPop(h, record) ==
    IF Len(h) + 1 > HistoryLimit THEN h ELSE Append(h, record)

\* lines 114-115: push, then shift once the limit is passed
PushHistory(h, record) ==
    LET pushed == Append(h, record)
    IN IF Len(pushed) > HistoryLimit THEN Tail(pushed) ELSE pushed

\* lines 105-107
Pushed == IF currentInput # <<>> THEN Append(expression, currentInput) ELSE expression

\* line 108
NothingToCompute(expr) ==
    Len(expr) < 1 \/ (Len(expr) = 1 /\ Falsy(parseFloat(expr[1])))

\* every double of the evaluation is the exact value: no operator, or
\* operands a double holds exactly and either one operation or no division
ExactFrom(numbers, operators) ==
    \/ Len(operators) = 0
    \/ /\ \A i \in 1..Len(numbers) : IsDyadic(numbers[i])
       /\ Len(operators) = 1 \/ \A i \in 1..Len(operators) : operators[i] # <<"/">>

ExactDoubles(expr) == ExactFrom(NumbersOf(expr), OperatorsOf(expr))

\* the texts formatResult can return for the double that evaluateExpression
\* returned: that of the exact value, and where the double may differ from
\* it in its last bits (its text is then too long) the exponent form too
FormatOutcomes(expr, result) ==
    {formatResult(result)}
    \cup (IF ExactDoubles(expr) THEN {} ELSE {toExponential4(result)})

\* lines 116-118 without line 118: the flag is not raised
CommitResultUnflagged(formattedResult, record) ==
    /\ history' = PushHistory(history, record)
    /\ currentInput' = formattedResult
    /\ expression' = <<>>
    /\ isResultDisplayed' = FALSE
    /\ computed' = Append(computed, record)

\* lines 116-118
CommitResult(formattedResult, record) ==
    /\ history' = PushHistory(history, record)
    /\ currentInput' = formattedResult
    /\ expression' = <<>>
    /\ isResultDisplayed' = TRUE
    /\ computed' = Append(computed, record)

\* the catch block without line 123: the tokens that failed are kept
CommitErrorKeepsExpression(message) ==
    /\ currentInput' = message
    /\ expression' = Pushed
    /\ isResultDisplayed' = TRUE
    /\ UNCHANGED <<history, computed>>

\* the catch block pushing the message to the history as the try block does
CommitErrorRecorded(message) ==
    /\ currentInput' = message
    /\ expression' = <<>>
    /\ isResultDisplayed' = TRUE
    /\ history' = PushHistory(history, Record(Join(Pushed), message))
    /\ UNCHANGED computed

\* lines 122-124
CommitError(message) ==
    /\ currentInput' = message
    /\ expression' = <<>>
    /\ isResultDisplayed' = TRUE
    /\ UNCHANGED <<history, computed>>

\* lines 110-127, result what evaluateExpression returned or threw
Try(expr, result) ==
    /\ outcome' = Evaluated(result)
    /\ IF result.ok
       THEN \E formattedResult \in FormatOutcomes(expr, result.value) :
                CommitResult(formattedResult, Record(Join(expr), formattedResult))
       ELSE CommitError(result.message)

\* calculate without the return of line 104
calculateUnguarded ==
    /\ lastAction' = "calculate"
    /\ IF NothingToCompute(Pushed)
       THEN /\ outcome' = ReturnedEarly
            /\ expression' = Pushed
            /\ UNCHANGED <<currentInput, isResultDisplayed, history, computed>>
       ELSE Try(Pushed, evaluateExpression(Pushed))

\* calculate(), lines 103-128
calculate ==
    /\ lastAction' = "calculate"
    /\ IF isResultDisplayed
       THEN /\ outcome' = ReturnedEarly
            /\ UNCHANGED <<currentInput, expression, isResultDisplayed, history, computed>>
       ELSE IF NothingToCompute(Pushed)
       THEN /\ outcome' = ReturnedEarly
            /\ expression' = Pushed
            /\ UNCHANGED <<currentInput, isResultDisplayed, history, computed>>
       ELSE Try(Pushed, evaluateExpression(Pushed))

-----------------------------------------------------------------------------
(* The calculator under any keys, to a bounded number of key presses *)

MaxSteps == 7

\* the keys of lines 204-209 that the model presses
NumberKeys == {"0", "1", "."}

\* lines 206-207: the operator padded with single spaces
OperatorKeys == {<<" ", "+", " ">>, <<" ", "-", " ">>, <<" ", "*", " ">>, <<" ", "/", " ">>}

\* one key press, while presses are left
Press(handler) ==
    /\ steps < MaxSteps
    /\ steps' = steps + 1
    /\ handler

Next ==
    \/ \E digit \in NumberKeys : Press(appendNumber(digit))
    \/ \E op \in OperatorKeys : Press(appendOperator(op))
    \/ Press(backspace)
    \/ Press(clearDisplay)
    \/ Press(clearAll)
    \/ Press(calculate)

Spec == Init /\ [][Next]_vars

-----------------------------------------------------------------------------
(* The calculator computing one-key numbers, to many computations: the     *)
(* history past its limit                                                  *)

MaxComputes == 12

HistoryKeys == {"1", "2"}

NextHistory ==
    \/ \E digit \in HistoryKeys :
           /\ currentInput = <<>> \/ isResultDisplayed
           /\ appendNumber(digit)
           /\ UNCHANGED steps
    \/ backspace /\ UNCHANGED steps
    \/ clearDisplay /\ UNCHANGED steps
    \/ clearAll /\ UNCHANGED steps
    \/ Len(computed) < MaxComputes /\ calculate /\ UNCHANGED steps

SpecHistory == Init /\ [][NextHistory]_vars

-----------------------------------------------------------------------------
(* evaluateExpression alone, on the token sequences of a bounded set *)

MaxOperators == 3

MaxTokens == 4

NumberTokens == {<<"0">>, <<"2">>, <<"3">>}

\* n0 op1 n1 ... opk nk
Alternating(numbers, operators) ==
    [i \in 1..(Len(numbers) + Len(operators)) |->
        IF i % 2 = 1 THEN numbers[(i + 1) \div 2] ELSE operators[i \div 2]]

\* the well-formed sequences of up to MaxOperators operators, and every
\* sequence of up to MaxTokens tokens
InitEvaluator ==
    /\ \/ \E k \in 0..MaxOperators :
             \E numbers \in [1..(k + 1) -> NumberTokens], operators \in [1..k -> Operators] :
                 expression = Alternating(numbers, operators)
       \/ \E n \in 0..MaxTokens : expression \in [1..n -> NumberTokens \cup Operators]
    /\ currentInput = <<>>
    /\ history = <<>>
    /\ isResultDisplayed = FALSE
    /\ lastAction = "none"
    /\ outcome = NoOutcome
    /\ computed = <<>>
    /\ steps = 0

\* line 111 alone
evaluate ==
    /\ outcome.kind = "none"
    /\ outcome' = Evaluated(evaluateExpression(expression))
    /\ lastAction' = "evaluateExpression"
    /\ UNCHANGED <<currentInput, expression, history, isResultDisplayed, computed, steps>>

NextEvaluator == evaluate

SpecEvaluator == InitEvaluator /\ [][NextEvaluator]_vars

-----------------------------------------------------------------------------
(* formatResult alone, on the numbers of a bounded set *)

\* the digits of the numbers: one and two digits, five, eight (1e7 and the
\* integer after it), nine and ten
Mantissas == {1, 15, 12345, 10000000, 10000001, 123456789, 1234567891}

\* the powers of ten the digits are divided by: the ten-digit number over
\* 10^8 is the last whose expansion stays within the integers of the tool
Scales == 0..8

Signs == {1, 0 - 1}

\* the state after line 111 returned one of the numbers
InitFormatter ==
    /\ \E sign \in Signs, m \in Mantissas, k \in Scales :
           outcome = Evaluated(Returned(Rat(sign * m, Pow10(k))))
    /\ currentInput = <<>>
    /\ expression = <<>>
    /\ history = <<>>
    /\ isResultDisplayed = FALSE
    /\ lastAction = "none"
    /\ computed = <<>>
    /\ steps = 0

\* line 113 alone, its text kept in currentInput
format ==
    /\ lastAction = "none"
    /\ currentInput' = formatResult(outcome.value)
    /\ lastAction' = "formatResult"
    /\ UNCHANGED <<expression, history, isResultDisplayed, outcome, computed, steps>>

NextFormatter == format

SpecFormatter == InitFormatter /\ [][NextFormatter]_vars

-----------------------------------------------------------------------------
(* Properties *)

\* number, operator, number, ..., number
WellFormed(tokens) ==
    /\ Len(tokens) % 2 = 1
    /\ \A i \in 1..Len(tokens) :
           IF i % 2 = 1 THEN ~IsOperator(tokens[i]) /\ ~IsNaN(parseFloat(tokens[i]))
           ELSE IsOperator(tokens[i])

\* some division of a well-formed sequence has a zero after it
DividesByZero(tokens) ==
    \E i \in 1..(Len(tokens) - 1) :
        tokens[i] = <<"/">> /\ IsZero(parseFloat(tokens[i + 1]))

\* a result, not an error message, is displayed
ShowsResult == isResultDisplayed /\ currentInput \notin ErrorMessages

\* C1: when a result r is displayed, appendOperator(op) for each of the four
\* operators leaves TokenSequence = [r, op], InputBuffer empty and
\* ResultDisplayed false.
C1_OperatorReusesResult ==
    [][\A op \in OperatorKeys :
          (ShowsResult /\ appendOperator(op))
          => /\ expression' = <<currentInput, Trim(op)>>
             /\ currentInput' = <<>>
             /\ ~isResultDisplayed']_vars

\* C2: the evaluator fails with InvalidExpression for every sequence of
\* parseable tokens whose numbers are not exactly one more than its operators.
C2_MiscountedFails ==
    (/\ outcome.kind = "evaluated"
     /\ \A i \in 1..Len(expression) :
            IsOperator(expression[i]) \/ ~IsNaN(parseFloat(expression[i]))
     /\ Len(NumbersOf(expression)) # Len(OperatorsOf(expression)) + 1)
    => (~outcome.ok /\ outcome.message = InvalidExpression)

\* C3: TokenSequence never holds two adjacent operator tokens.
C3_NoAdjacentOperators ==
    \A i \in 1..(Len(expression) - 1) :
        ~(IsOperator(expression[i]) /\ IsOperator(expression[i + 1]))

\* C4, as claimed: a non-empty TokenSequence never has an operator as its
\* first element.
C4_NeverStartsWithOperator ==
    expression # <<>> => ~IsOperator(expression[1])

\* C4, amended: a non-empty TokenSequence never has +, * or / as its first
\* element; the only operator that can stand first is a minus.
C4_StartsWithNoOperatorButMinus ==
    (expression # <<>> /\ IsOperator(expression[1])) => expression[1] = <<"-">>

\* C4: a minus stands first, and the expression went on from it
C4_Witness ==
    Len(expression) >= 3 /\ expression[1] = <<"-">> /\ ~IsOperator(expression[2])

\* C5: History holds at most 10 records.
C5_HistoryAtMostTen == Len(history) <= HistoryLimit

\* C5: an eleventh computation has happened and ten records are held
C5_Witness == Len(computed) > HistoryLimit /\ Len(history) = HistoryLimit

Min(a, b) == IF a < b THEN a ELSE b

LastOf(seq, n) == SubSeq(seq, Len(seq) - n + 1, Len(seq))

\* C6: after k successful computations since the last clearAll, History is
\* the last min(k, 10) of their records, in the order they were computed;
\* the newest record shows the text that is displayed as the result.
C6_HistoryIsLastTenInOrder ==
    /\ history = LastOf(computed, Min(Len(computed), HistoryLimit))
    /\ (lastAction = "calculate" /\ outcome.kind = "evaluated" /\ outcome.ok)
       => /\ history # <<>>
          /\ history[Len(history)].result = currentInput

\* C6: twelve computations, the oldest record held is the third computed and
\* differs from the records evicted
C6_Witness ==
    /\ Len(computed) = HistoryLimit + 2
    /\ history[1] = computed[3]
    /\ computed[3] # computed[1]
    /\ computed[3] # computed[2]
    /\ history[HistoryLimit] = computed[HistoryLimit + 2]
    /\ history[HistoryLimit] # history[1]

\* C7: when evaluateExpression throws during calculate, InputBuffer becomes
\* the message, TokenSequence empty, ResultDisplayed true, and History is as
\* it was.
C7_FailureCommitsMessageOnly ==
    [][(/\ lastAction' = "calculate"
        /\ ~isResultDisplayed
        /\ ~NothingToCompute(Pushed)
        /\ ~evaluateExpression(Pushed).ok)
       => (/\ currentInput' = evaluateExpression(Pushed).message
           /\ currentInput' \in ErrorMessages
           /\ expression' = <<>>
           /\ isResultDisplayed'
           /\ history' = history)]_vars

\* C7: a division by zero was committed as a message with a record in History
C7_Witness ==
    /\ lastAction = "calculate"
    /\ outcome.kind = "evaluated"
    /\ ~outcome.ok
    /\ currentInput = DivideByZero
    /\ isResultDisplayed
    /\ Len(history) = 1

\* C8: a well-formed sequence in which some / is followed by a number of
\* value zero fails with DivideByZero.
C8_DivisionByZeroFails ==
    (outcome.kind = "evaluated" /\ WellFormed(expression) /\ DividesByZero(expression))
    => (~outcome.ok /\ outcome.message = DivideByZero)

\* C8: 3 * 2 / 0 + 2 was evaluated
C8_Witness ==
    /\ outcome.kind = "evaluated"
    /\ expression = <<<<"3">>, <<"*">>, <<"2">>, <<"/">>, <<"0">>, <<"+">>, <<"2">>>>
    /\ outcome.message = DivideByZero

\* the value of n0 op1 n1 ... with * and / collapsed left to right first and
\* + and - folded left to right then: a sum of products, read from the right
RECURSIVE ProductValue(_)
ProductValue(tokens) ==
    IF Len(tokens) = 1 THEN parseFloat(tokens[1])
    ELSE IF tokens[Len(tokens) - 1] = <<"*">>
    THEN Times(ProductValue(SubSeq(tokens, 1, Len(tokens) - 2)), parseFloat(tokens[Len(tokens)]))
    ELSE Over(ProductValue(SubSeq(tokens, 1, Len(tokens) - 2)), parseFloat(tokens[Len(tokens)]))

\* the index of the last + or - of the tokens, 0 if none
RECURSIVE LastAdditive(_)
LastAdditive(tokens) ==
    IF tokens = <<>> THEN 0
    ELSE IF tokens[Len(tokens)] \in {<<"+">>, <<"-">>} THEN Len(tokens)
    ELSE LastAdditive(SliceLast(tokens))

RECURSIVE ReferenceValue(_)
ReferenceValue(tokens) ==
    LET j == LastAdditive(tokens)
    IN IF j = 0 THEN ProductValue(tokens)
       ELSE IF tokens[j] = <<"+">>
       THEN Plus(ReferenceValue(SubSeq(tokens, 1, j - 1)),
                 ProductValue(SubSeq(tokens, j + 1, Len(tokens))))
       ELSE Minus(ReferenceValue(SubSeq(tokens, 1, j - 1)),
                  ProductValue(SubSeq(tokens, j + 1, Len(tokens))))

\* C9: for a well-formed sequence with no division by zero the evaluator
\* returns the value with * and / collapsed left to right first and + and -
\* folded left to right then; a single number is returned unchanged.
C9_ResultIsTwoTierValue ==
    (outcome.kind = "evaluated" /\ WellFormed(expression) /\ ~DividesByZero(expression))
    => /\ outcome.ok
       /\ outcome.value = ReferenceValue(expression)
       /\ Len(expression) = 1 => outcome.value = parseFloat(expression[1])

\* C9: 2 + 3 * 2 - 3 was evaluated to 5
C9_Witness ==
    /\ outcome.kind = "evaluated"
    /\ expression = <<<<"2">>, <<"+">>, <<"3">>, <<"*">>, <<"2">>, <<"-">>, <<"3">>>>
    /\ outcome.ok
    /\ outcome.value = Whole(5)

\* C10: clear() leaves InputBuffer and TokenSequence empty, ResultDisplayed
\* false and History as it was; clearAll() leaves the same with History empty.
C10_ClearKeepsHistoryClearAllEmptiesIt ==
    [][/\ lastAction' = "clearDisplay"
          => /\ currentInput' = <<>>
             /\ expression' = <<>>
             /\ ~isResultDisplayed'
             /\ history' = history
       /\ lastAction' = "clearAll"
          => /\ currentInput' = <<>>
             /\ expression' = <<>>
             /\ ~isResultDisplayed'
             /\ history' = <<>>]_vars

\* C10: cleared with a record in History
C10_Witness ==
    /\ lastAction = "clearDisplay"
    /\ Len(history) = 1
    /\ currentInput = <<>>
    /\ expression = <<>>
    /\ ~isResultDisplayed

\* C11: with the flag false, the input empty and the expression not empty,
\* backspace removes the last two elements of the expression: the last is an
\* operator and is discarded, the one before it is a number and becomes the
\* input, and the elements before them stay
C11_BackspaceReopensNumber ==
    [][(/\ ~isResultDisplayed
        /\ currentInput = <<>>
        /\ expression # <<>>
        /\ lastAction' = "backspace")
       => /\ Len(expression) >= 2
          /\ IsOperator(expression[Len(expression)])
          /\ ~IsOperator(expression[Len(expression) - 1])
          /\ currentInput' = expression[Len(expression) - 1]
          /\ expression' = SubSeq(expression, 1, Len(expression) - 2)
          /\ ~isResultDisplayed'
          /\ history' = history]_vars

\* C12: while a result or an error message is displayed, appendNumber(ch)
\* leaves the input exactly ch, the expression empty, the flag false and the
\* history as it was
C12_DigitDiscardsResult ==
    [][\A ch \in NumberKeys :
           (isResultDisplayed /\ appendNumber(ch))
           => /\ currentInput' = <<ch>>
              /\ expression' = <<>>
              /\ ~isResultDisplayed'
              /\ history' = history]_vars

\* C12: a key typed right after the first computation, which took two keys
C12_Witness ==
    /\ lastAction = "appendNumber"
    /\ steps = 3
    /\ Len(history) = 1
    /\ Len(currentInput) = 1
    /\ expression = <<>>
    /\ ~isResultDisplayed

\* the handlers that edit
EditHandlers == {"appendNumber", "appendOperator", "backspace", "clearDisplay", "clearAll"}

\* C13: the flag is false right after appendNumber, appendOperator,
\* backspace, clearDisplay and clearAll, true right after a calculate that
\* commits a result or an error message, and as it was after a calculate that
\* commits nothing: it is true exactly from a commit to the next edit
C13_FlagFromCommitToNextEdit ==
    [][/\ lastAction' \in EditHandlers => ~isResultDisplayed'
       /\ (lastAction' = "calculate" /\ outcome'.kind = "evaluated") => isResultDisplayed'
       /\ (lastAction' = "calculate" /\ outcome'.kind = "returned")
          => isResultDisplayed' = isResultDisplayed]_vars

\* C13: an operator pressed on a displayed result, the flag false again
C13_Witness ==
    /\ lastAction = "appendOperator"
    /\ Len(history) = 1
    /\ steps = 3
    /\ ~isResultDisplayed
    /\ expression # <<>>

\* the number of decimal points of a text
RECURSIVE Points(_)
Points(text) ==
    IF text = <<>> THEN 0
    ELSE (IF Head(text) = "." THEN 1 ELSE 0) + Points(Tail(text))

\* C14: the input never holds two decimal points, whichever handler ran; and
\* appendNumber('.') on an input that holds a point, the flag false, changes
\* none of the input, the expression, the flag and the history
C14_AtMostOnePoint ==
    [][/\ Points(currentInput') <= 1
       /\ (~isResultDisplayed /\ Includes(currentInput, ".") /\ appendNumber("."))
          => UNCHANGED <<currentInput, expression, isResultDisplayed, history>>]_vars

\* C14: the input '0.' after a third key, as the point pressed on '0.' leaves
\* it
C14_Witness ==
    /\ lastAction = "appendNumber"
    /\ steps = 3
    /\ currentInput = <<"0", ".">>
    /\ expression = <<>>
    /\ history = <<>>

\* the fraction digits of x in plain decimal notation, as many as 17, and the
\* remainder they leave
PlainFraction(x) == FracDigits(Abs(x.num) % x.den, x.den, 17)

PlainWhole(x) == IntDigits(Abs(x.num) \div x.den)

\* x in plain decimal notation: -0.00000015, 12.5 (for x of at most 17
\* fraction digits)
PlainText(x) == DecimalForm(SignText(x), PlainWhole(x), StripTrailingZeros(PlainFraction(x).digits))

\* the digits of the plain notation, the zero before the point among them
PlainDigitCount(x) ==
    (IF PlainWhole(x) = <<>> THEN 1 ELSE Len(PlainWhole(x)))
    + Len(StripTrailingZeros(PlainFraction(x).digits))

\* the three conditions of the claim
WantsScientific(x) ==
    \/ PlainFraction(x).rem # 0
    \/ PlainDigitCount(x) > 10
    \/ AboveTenMillion(x)
    \/ BelowTenMillionth(x)

\* d.dddde+n or d.dddde-n
IsMantissaOfFour(text) ==
    /\ Len(text) >= 9
    /\ text[1] \in DigitChars
    /\ text[2] = "."
    /\ \A i \in 3..6 : text[i] \in DigitChars
    /\ text[7] = "e"
    /\ text[8] \in {"+", "-"}
    /\ \A i \in 9..Len(text) : text[i] \in DigitChars

IsScientific(text) ==
    IsMantissaOfFour(IF text # <<>> /\ Head(text) = "-" THEN Tail(text) ELSE text)

\* C15: formatResult(x) is in scientific notation with four fraction digits
\* in the mantissa exactly when the plain notation of x has more than 10
\* digits, or |x| > 1e7, or 0 < |x| < 1e-7; otherwise it is the plain decimal
\* text of x
C15_ScientificExactlyWhenLongOrExtreme ==
    lastAction = "formatResult"
    => /\ IsScientific(currentInput) <=> WantsScientific(outcome.value)
       /\ ~WantsScientific(outcome.value) => currentInput = PlainText(outcome.value)

\* C16: the expression alternates number, operator, number, ...: no two
\* number tokens are adjacent in it, whichever handlers ran
C16_NoAdjacentNumbers ==
    \A i \in 1..(Len(expression) - 1) :
        IsOperator(expression[i]) \/ IsOperator(expression[i + 1])

\* C17: a calculate that commits neither a result nor an error message (the
\* expression is empty, or is a single token that is zero or not a number)
\* leaves the input, the expression, the flag and the history as they were
C17_NothingCommittedNothingChanged ==
    [][(lastAction' = "calculate" /\ outcome'.kind = "returned")
       => UNCHANGED <<currentInput, expression, isResultDisplayed, history>>]_vars

\* C18: calculate while a result or an error message is displayed changes
\* none of the input, the expression, the flag and the history: no second
\* record for the same calculation
C18_ComputeOnResultIsNoOp ==
    [][(isResultDisplayed /\ lastAction' = "calculate")
       => /\ UNCHANGED <<currentInput, expression, isResultDisplayed, history>>
          /\ outcome'.kind = "returned"]_vars

\* C18: calculate pressed again on the result of the first computation
C18_Witness ==
    /\ lastAction = "calculate"
    /\ outcome.kind = "returned"
    /\ isResultDisplayed
    /\ Len(history) = 1
    /\ currentInput \notin ErrorMessages

\* C19: while the flag is true the expression is empty: the displayed result
\* or error message is in the input alone
C19_ResultDisplayedMeansNoTokens ==
    isResultDisplayed => expression = <<>>

\* C19: an error message displayed, which takes an expression of some tokens
C19_Witness ==
    /\ isResultDisplayed
    /\ lastAction = "calculate"
    /\ outcome.kind = "evaluated"
    /\ currentInput \in ErrorMessages
    /\ expression = <<>>

\* digits and at most one decimal point
NumericLiteral(text) ==
    /\ \A i \in 1..Len(text) : text[i] \in DigitChars \cup {"."}
    /\ Points(text) <= 1

\* C20: every token of the expression that is not an operator, and the input
\* while the flag is false, is made of digits and at most one decimal point:
\* no error message becomes a token or an input to edit
C20_TokensAreNumericLiterals ==
    /\ \A i \in 1..Len(expression) :
           IsOperator(expression[i]) \/ NumericLiteral(expression[i])
    /\ ~isResultDisplayed => NumericLiteral(currentInput)

====
